---------------------------- MODULE Spec2Model ----------------------------
(***************************************************************************)
(* EventDrops: adaptive time bucketing (src/src/dropLine.js, which also    *)
(* holds the timeScale helpers, and src/src/heatmap.js).                      *)
(*                                                                         *)
(* Instants.  A JavaScript Date is a millisecond count.  A decade of       *)
(* milliseconds does not fit a 32-bit integer, so an instant is kept as    *)
(* the pair <<day, ms>>: whole days since 1970-01-01 and milliseconds      *)
(* within that day (0 .. 86399999); the instant is day * 86400000 + ms.    *)
(* The local time zone is taken to be UTC (no daylight-saving shifts).     *)
(* Durations are pairs of the same shape (day may be negative).            *)
(***************************************************************************)
EXTENDS Integers, Sequences, FiniteSets, TLC

VARIABLES
    xDomain,        \* xScale.domain(): [present, vals] (vals: sequence of date values)
    xRange,         \* xScale.range() is [0, xRange] pixels
    xTicks,         \* what xScale.ticks(count) returns for this scale
    cfgBucketSize,  \* config.bucketSize: [set, minWidth, maxWidth]
    cfgTickHint,    \* config.numberDisplayedTicks[breakpointLabel]: [has, count]
    scaleIn,        \* the granularity handed to refineBucketScale / the aggregator
    rowData,        \* the row datum handed to the heatmap: [present, data]
    selData,        \* the rows bound to the selection dropLine is called on
    cfgMetaballs,   \* config.metaballs
    done,           \* the operations that have run on these inputs
    outRefined,        \* what refineBucketScale returned
    outTimeScale,      \* what getTimeScale returned
    outUseHeatmap,     \* what shouldUseHeatmap returned
    outComponent, \* the component dropLine chose: "heatmap" or "drop"
    outBuckets,        \* what aggregateEvents returned
    outHeatData,       \* what getHeatmapBucketData returned
    outTickScale,      \* what detectTickScaleFromTicks returned, with its candidates
    dom                \* the .drop-line rows of the chart, one record per row

inputs ==
    <<xDomain, xRange, xTicks, cfgBucketSize, cfgTickHint, scaleIn, rowData, selData,
      cfgMetaballs>>
results ==
    <<outRefined, outTimeScale, outUseHeatmap, outComponent, outBuckets, outHeatData,
      outTickScale>>
vars == <<inputs, done, results, dom>>

-----------------------------------------------------------------------------
(* Arithmetic on <<day, ms>> pairs                                         *)

MsPerSecond == 1000
MsPerMinute == 60000
MsPerHour == 3600000
MsPerDay == 86400000
SecondsPerDay == MsPerDay \div MsPerSecond

\* day * MsPerDay + ms, renormalised so that 0 <= ms < MsPerDay
Norm(d, ms) == <<d + (ms \div MsPerDay), ms % MsPerDay>>

Less(a, b) == a[1] < b[1] \/ (a[1] = b[1] /\ a[2] < b[2])
Leq(a, b) == a = b \/ Less(a, b)

\* a - b (JavaScript's date2 - date1)
Minus(a, b) == Norm(a[1] - b[1], a[2] - b[2])

\* a + b
Plus(a, b) == Norm(a[1] + b[1], a[2] + b[2])

ZeroDur == <<0, 0>>

\* Math.abs of a duration
AbsDur(a) == IF Less(a, ZeroDur) THEN Minus(ZeroDur, a) ELSE a

\* a * k for an integer 0 <= k <= 20000, without leaving 32 bits
Scale(a, k) ==
    LET s == a[2] \div MsPerSecond
        r == a[2] % MsPerSecond
        rk == r * k
        sk == s * k + (rk \div MsPerSecond)
    IN  <<a[1] * k + (sk \div SecondsPerDay),
          (sk % SecondsPerDay) * MsPerSecond + (rk % MsPerSecond)>>

-----------------------------------------------------------------------------
(* The proleptic Gregorian calendar, as JavaScript's Date keeps it         *)

\* Days since 1970-01-01 from the era (400 years), the year of the era and the
\* day of the year counted from March 1
DaysOfEra(era, yoe, doy) ==
    era * 146097 + yoe * 365 + (yoe \div 4) - (yoe \div 100) + doy - 719468

\* yy: the year, counted from March; mp: the month, March = 0
DaysFromMarch(yy, mp, d) ==
    DaysOfEra(yy \div 400, yy % 400, ((153 * mp + 2) \div 5) + d - 1)

\* days since 1970-01-01 of year y, month m (1..12), day-of-month d; a d past
\* the month's end runs into the next month, as Date.setMonth/setFullYear do
DaysFromCivil(y, m, d) ==
    DaysFromMarch(IF m <= 2 THEN y - 1 ELSE y, (m + 9) % 12, d)

CivilOfMonth(yy, mp, d) ==
    [y |-> IF mp < 10 THEN yy ELSE yy + 1,
     m |-> IF mp < 10 THEN mp + 3 ELSE mp - 9,
     d |-> d]

CivilOfMarchMonth(yy, doy, mp) ==
    CivilOfMonth(yy, mp, doy - ((153 * mp + 2) \div 5) + 1)

CivilOfDayOfYear(yy, doy) == CivilOfMarchMonth(yy, doy, (5 * doy + 2) \div 153)

CivilOfYearOfEra(era, doe, yoe) ==
    CivilOfDayOfYear(yoe + era * 400, doe - (365 * yoe + (yoe \div 4) - (yoe \div 100)))

CivilOfDayOfEra(era, doe) ==
    CivilOfYearOfEra(era, doe,
        (doe - (doe \div 1460) + (doe \div 36524) - (doe \div 146096)) \div 365)

\* [y, m, d] of a day number
CivilFromDays(z) ==
    CivilOfDayOfEra((z + 719468) \div 146097, (z + 719468) % 146097)

\* Date.getDay(): 0 = Sunday; 1970-01-01 was a Thursday
WeekDay(day) == (day + 4) % 7

\* An instant from its civil date and time of day
At(y, m, d, ms) == <<DaysFromCivil(y, m, d), ms>>

-----------------------------------------------------------------------------
(* d3-time intervals: floor, offset, ceil, count                           *)

Intervals == {"timeSecond", "timeMinute", "timeHour", "timeDay", "timeWeek",
              "timeMonth", "timeYear", "timeYear10", "timeYear1000"}

\* timeYear.every(k): years are floored to a multiple of k
YearStep(iv) == IF iv = "timeYear10" THEN 10
                ELSE IF iv = "timeYear1000" THEN 1000 ELSE 1

FloorToMonth(c) == <<DaysFromCivil(c.y, c.m, 1), 0>>
FloorToYears(c, k) == <<DaysFromCivil((c.y \div k) * k, 1, 1), 0>>

\* interval.floor(date)
IntervalFloor(iv, t) ==
    CASE iv = "timeSecond" -> <<t[1], t[2] - (t[2] % MsPerSecond)>>
      [] iv = "timeMinute" -> <<t[1], t[2] - (t[2] % MsPerMinute)>>
      [] iv = "timeHour"   -> <<t[1], t[2] - (t[2] % MsPerHour)>>
      [] iv = "timeDay"    -> <<t[1], 0>>
      [] iv = "timeWeek"   -> <<t[1] - WeekDay(t[1]), 0>>
      [] iv = "timeMonth"  -> FloorToMonth(CivilFromDays(t[1]))
      [] OTHER -> FloorToYears(CivilFromDays(t[1]), YearStep(iv))

\* date.setMonth(date.getMonth() + step), date.setFullYear(date.getFullYear() + step)
AddMonths(c, mi) == DaysFromCivil(c.y + (mi \div 12), (mi % 12) + 1, 1) + c.d - 1
AddYears(c, step) == DaysFromCivil(c.y + step, c.m, 1) + c.d - 1

\* interval.offset(date, step)
IntervalOffset(iv, t, step) ==
    CASE iv = "timeSecond" ->
            Norm(t[1] + (step \div SecondsPerDay),
                 t[2] + (step % SecondsPerDay) * MsPerSecond)
      [] iv = "timeMinute" ->
            Norm(t[1] + (step \div 1440), t[2] + (step % 1440) * MsPerMinute)
      [] iv = "timeHour"   ->
            Norm(t[1] + (step \div 24), t[2] + (step % 24) * MsPerHour)
      [] iv = "timeDay"    -> <<t[1] + step, t[2]>>
      [] iv = "timeWeek"   -> <<t[1] + 7 * step, t[2]>>
      [] iv = "timeMonth"  ->
            <<AddMonths(CivilFromDays(t[1]), CivilFromDays(t[1]).m - 1 + step), t[2]>>
      [] OTHER -> <<AddYears(CivilFromDays(t[1]), step * YearStep(iv)), t[2]>>

\* interval.ceil(date) = floor(offset(floor(date - 1), 1))
IntervalCeil(iv, t) ==
    IntervalFloor(iv, IntervalOffset(iv, IntervalFloor(iv, Norm(t[1], t[2] - 1)), 1))

MonthsBetween(ca, cb) == (cb.m - ca.m) + (cb.y - ca.y) * 12

\* The count between two instants already floored to the interval
CountFloored(iv, fa, fb) ==
    CASE iv = "timeSecond" ->
            (fb[1] - fa[1]) * SecondsPerDay + ((fb[2] - fa[2]) \div MsPerSecond)
      [] iv = "timeMinute" ->
            (fb[1] - fa[1]) * 1440 + ((fb[2] - fa[2]) \div MsPerMinute)
      [] iv = "timeHour"   ->
            (fb[1] - fa[1]) * 24 + ((fb[2] - fa[2]) \div MsPerHour)
      [] iv = "timeDay"    -> fb[1] - fa[1]
      [] iv = "timeWeek"   -> (fb[1] - fa[1]) \div 7
      [] iv = "timeMonth"  -> MonthsBetween(CivilFromDays(fa[1]), CivilFromDays(fb[1]))
      [] OTHER -> (CivilFromDays(fb[1]).y - CivilFromDays(fa[1]).y) \div YearStep(iv)

\* interval.count(start, end): unit boundaries in (start, end]; both ends are
\* floored first.  (For timeSecond the spacing must stay under 68 years to
\* fit 32 bits.)
IntervalCount(iv, a, b) == CountFloored(iv, IntervalFloor(iv, a), IntervalFloor(iv, b))

-----------------------------------------------------------------------------
(* Date values, domains                                                    *)

\* A JavaScript value where a Date is expected: a valid Date, an Invalid Date
\* (NaN time) or something that is not a Date at all (undefined, a string)
DateOf(t) == [kind |-> "date", t |-> t]
InvalidDate == [kind |-> "nan", t |-> ZeroDur]
NotADate == [kind |-> "other", t |-> ZeroDur]

isValidDate(date) == date.kind = "date"

NoDomain == [present |-> FALSE, vals |-> <<>>]
Domain(vals) == [present |-> TRUE, vals |-> vals]

Null == [ok |-> FALSE, start |-> ZeroDur, end |-> ZeroDur]

\* validateDomain without the isValidDate test of the two bounds
validateDomainLengthOnly(domain) ==
    IF ~domain.present \/ Len(domain.vals) < 2 THEN Null
    ELSE [ok |-> TRUE, start |-> domain.vals[1].t, end |-> domain.vals[2].t]

validateDomain(domain) ==
    IF ~domain.present \/ Len(domain.vals) < 2 THEN Null
    ELSE IF ~isValidDate(domain.vals[1]) \/ ~isValidDate(domain.vals[2]) THEN Null
    ELSE [ok |-> TRUE, start |-> domain.vals[1].t, end |-> domain.vals[2].t]

-----------------------------------------------------------------------------
(* Granularities                                                           *)

TIMESCALE_HIERARCHY ==
    <<"milliseconds", "seconds", "minutes", "hours", "days", "weeks", "months",
      "years", "decades">>

Granularities == {TIMESCALE_HIERARCHY[i] : i \in DOMAIN TIMESCALE_HIERARCHY}

AllScales == Granularities \cup {"millennium"}

\* TIMESCALE_HIERARCHY.indexOf(scale), 1-based; 0 stands for JavaScript's -1
IndexOf(scale) ==
    IF scale \in Granularities
    THEN CHOOSE i \in DOMAIN TIMESCALE_HIERARCHY : TIMESCALE_HIERARCHY[i] = scale
    ELSE 0

\* BUCKET_SCALE_MAP with the millennium entry not stepped down
BUCKET_SCALE_MAP_KeepMillennium ==
    [s \in AllScales |->
        CASE s = "millennium" -> "millennium"
          [] s = "decades" -> "years"
          [] s = "years" -> "months"
          [] s = "months" -> "weeks"
          [] s = "weeks" -> "days"
          [] s = "days" -> "hours"
          [] s = "hours" -> "minutes"
          [] s = "minutes" -> "seconds"
          [] s = "seconds" -> "milliseconds"
          [] OTHER -> "milliseconds"]

\* BUCKET_SCALE_MAP with seconds mapped to itself, as milliseconds is
BUCKET_SCALE_MAP_SecondsKept ==
    [s \in AllScales |->
        CASE s = "millennium" -> "decades"
          [] s = "decades" -> "years"
          [] s = "years" -> "months"
          [] s = "months" -> "weeks"
          [] s = "weeks" -> "days"
          [] s = "days" -> "hours"
          [] s = "hours" -> "minutes"
          [] s = "minutes" -> "seconds"
          [] s = "seconds" -> "seconds"
          [] OTHER -> "milliseconds"]

BUCKET_SCALE_MAP ==
    [s \in AllScales |->
        CASE s = "millennium" -> "decades"
          [] s = "decades" -> "years"
          [] s = "years" -> "months"
          [] s = "months" -> "weeks"
          [] s = "weeks" -> "days"
          [] s = "days" -> "hours"
          [] s = "hours" -> "minutes"
          [] s = "minutes" -> "seconds"
          [] s = "seconds" -> "milliseconds"
          [] OTHER -> "milliseconds"]

getD3TimeInterval(scale) ==
    CASE scale = "millennium" -> "timeYear1000"
      [] scale = "decades" -> "timeYear10"
      [] scale = "years" -> "timeYear"
      [] scale = "months" -> "timeMonth"
      [] scale = "weeks" -> "timeWeek"
      [] scale = "days" -> "timeDay"
      [] scale = "hours" -> "timeHour"
      [] scale = "minutes" -> "timeMinute"
      [] scale = "seconds" -> "timeSecond"
      [] scale = "milliseconds" -> "timeSecond"
      [] OTHER -> "timeDay"

-----------------------------------------------------------------------------
(* The pixel scale and bucket widths                                       *)

\* A pixel length is the rational num / den with den > 0 (both <<day, ms>>
\* pairs): d3's scaleTime maps the domain linearly onto [0, range].
ZeroWidth == [num |-> ZeroDur, den |-> <<0, 1>>]

\* xScale(b) - xScale(a) for the scale of domain [start, end] and range
\* [0, range]; a domain of no length maps every instant to one pixel
xScaleDiff(start, end, range, a, b) ==
    LET den == Minus(end, start)
    IN  IF den = ZeroDur THEN ZeroWidth
        ELSE IF Less(ZeroDur, den)
        THEN [num |-> Scale(Minus(b, a), range), den |-> den]
        ELSE [num |-> Scale(Minus(a, b), range), den |-> Minus(ZeroDur, den)]

\* width < px, width >= px, width > px, width <= px for a whole number px
WidthLt(w, px) == Less(w.num, Scale(w.den, px))
WidthGe(w, px) == ~WidthLt(w, px)
WidthGt(w, px) == Less(Scale(w.den, px), w.num)
WidthLe(w, px) == ~WidthGt(w, px)

\* Math.max(0, bucketEnd - bucketStart)
MaxZero(diff) == IF Less(diff.num, ZeroDur) THEN ZeroWidth ELSE diff

\* The sample bucket [bucketStartDate, bucketStartDate + 1 unit) measured in pixels
SampleBucketWidth(domainInfo, range, timeInterval, bucketStartDate) ==
    MaxZero(xScaleDiff(domainInfo.start, domainInfo.end, range, bucketStartDate,
                       IntervalOffset(timeInterval, bucketStartDate, 1)))

BucketWidthIn(domainInfo, range, timeInterval) ==
    IF ~domainInfo.ok THEN ZeroWidth
    ELSE SampleBucketWidth(domainInfo, range, timeInterval,
                           IntervalFloor(timeInterval, domainInfo.start))

calculateBucketWidth(domain, range, bucketScale) ==
    BucketWidthIn(validateDomain(domain), range, getD3TimeInterval(bucketScale))

-----------------------------------------------------------------------------
(* Tick granularity                                                        *)

detectTickScaleFromDuration(duration) ==
    \* durationYears >= n  <=>  duration >= n * 365.25 days
    IF Leq(<<365250, 0>>, duration) THEN "millennium"
    ELSE IF Leq(<<3652, MsPerDay \div 2>>, duration) THEN "decades"
    ELSE IF Leq(<<365, 0>>, duration) THEN "years"
    ELSE IF Leq(<<30, 0>>, duration) THEN "months"
    ELSE IF Leq(<<7, 0>>, duration) THEN "weeks"
    ELSE IF Leq(<<1, 0>>, duration) THEN "days"
    ELSE IF Leq(<<0, MsPerHour>>, duration) THEN "hours"
    ELSE IF Leq(<<0, MsPerMinute>>, duration) THEN "minutes"
    ELSE IF Leq(<<0, MsPerSecond>>, duration) THEN "seconds"
    ELSE "milliseconds"

\* One candidate of detectTickScaleFromTicks, or none when the unit's count n
\* between the ticks is under atLeast; its count field is n / per
Candidate(scale, iv, tick1, n, atLeast, per) ==
    IF n >= atLeast
    THEN <<[scale |-> scale,
            expectedDuration |-> Minus(IntervalOffset(iv, tick1, n), tick1),
            count |-> n \div per]>>
    ELSE <<>>

\* d3.timeSecond.count(tick1, tick2) * 1000: the whole seconds between the
\* ticks as a duration (the count itself leaves 32 bits after 68 years)
SecondsCounted(tick1, tick2) ==
    Minus(IntervalFloor("timeSecond", tick2), IntervalFloor("timeSecond", tick1))

\* The seconds candidate: secondCount >= 1, and d3.timeSecond.offset(tick1,
\* secondCount) is tick1 plus the counted seconds
SecondsCandidate(tick1, counted) ==
    IF Leq(<<0, MsPerSecond>>, counted)
    THEN <<[scale |-> "seconds",
            expectedDuration |-> Minus(Plus(tick1, counted), tick1),
            count |-> counted]>>
    ELSE <<>>

YearCandidates(tick1, yearCount) ==
    Candidate("millennium", "timeYear", tick1, yearCount, 1000, 1000)
    \o Candidate("decades", "timeYear", tick1, yearCount, 10, 10)
    \o Candidate("years", "timeYear", tick1, yearCount, 1, 1)

\* The candidates with a milliseconds fallback of expected duration 0
TickCandidatesZeroFallback(tick1, tick2) ==
    YearCandidates(tick1, IntervalCount("timeYear", tick1, tick2))
    \o Candidate("months", "timeMonth", tick1, IntervalCount("timeMonth", tick1, tick2), 1, 1)
    \o Candidate("weeks", "timeWeek", tick1, IntervalCount("timeWeek", tick1, tick2), 1, 1)
    \o Candidate("days", "timeDay", tick1, IntervalCount("timeDay", tick1, tick2), 1, 1)
    \o Candidate("hours", "timeHour", tick1, IntervalCount("timeHour", tick1, tick2), 1, 1)
    \o Candidate("minutes", "timeMinute", tick1,
                 IntervalCount("timeMinute", tick1, tick2), 1, 1)
    \o SecondsCandidate(tick1, SecondsCounted(tick1, tick2))
    \o <<[scale |-> "milliseconds", expectedDuration |-> ZeroDur, count |-> 1]>>

\* The candidates in the order the code pushes them
TickCandidates(tick1, tick2) ==
    YearCandidates(tick1, IntervalCount("timeYear", tick1, tick2))
    \o Candidate("months", "timeMonth", tick1, IntervalCount("timeMonth", tick1, tick2), 1, 1)
    \o Candidate("weeks", "timeWeek", tick1, IntervalCount("timeWeek", tick1, tick2), 1, 1)
    \o Candidate("days", "timeDay", tick1, IntervalCount("timeDay", tick1, tick2), 1, 1)
    \o Candidate("hours", "timeHour", tick1, IntervalCount("timeHour", tick1, tick2), 1, 1)
    \o Candidate("minutes", "timeMinute", tick1,
                 IntervalCount("timeMinute", tick1, tick2), 1, 1)
    \o SecondsCandidate(tick1, SecondsCounted(tick1, tick2))
    \o <<[scale |-> "milliseconds", expectedDuration |-> Minus(tick2, tick1), count |-> 1]>>

\* The loop over the candidates from index i on: best is [scale, found, diff],
\* found = FALSE standing for minDifference = Infinity
RECURSIVE BestCandidate(_, _, _, _)
\* The comparison with <= for <: a later candidate wins a tie
CloserOrEqual(candidates, tickDuration, i, best, difference) ==
    IF ~best.found \/ Leq(difference, best.diff)
    THEN BestCandidate(candidates, tickDuration, i + 1,
            [scale |-> candidates[i].scale, found |-> TRUE, diff |-> difference])
    ELSE BestCandidate(candidates, tickDuration, i + 1, best)

Closer(candidates, tickDuration, i, best, difference) ==
    IF ~best.found \/ Less(difference, best.diff)
    THEN BestCandidate(candidates, tickDuration, i + 1,
            [scale |-> candidates[i].scale, found |-> TRUE, diff |-> difference])
    ELSE BestCandidate(candidates, tickDuration, i + 1, best)

BestCandidate(candidates, tickDuration, i, best) ==
    IF i > Len(candidates) THEN best.scale
    ELSE Closer(candidates, tickDuration, i, best,
                AbsDur(Minus(candidates[i].expectedDuration, tickDuration)))

detectTickScaleFromTicks(sampleTicks) ==
    IF Len(sampleTicks) < 2 THEN "days"
    ELSE BestCandidate(TickCandidates(sampleTicks[1], sampleTicks[2]),
                       Minus(sampleTicks[2], sampleTicks[1]), 1,
                       [scale |-> "milliseconds", found |-> FALSE, diff |-> ZeroDur])

-----------------------------------------------------------------------------
(* Refinement under the bucket size constraints                            *)

NullPx == [isNull |-> TRUE, px |-> 0]
Px(n) == [isNull |-> FALSE, px |-> n]
NoBucketSize == [set |-> FALSE, minWidth |-> NullPx, maxWidth |-> NullPx]
BucketSize(min, max) == [set |-> TRUE, minWidth |-> min, maxWidth |-> max]

\* A walk's state is [scale, width, tested]: the scale and width adopted so far
\* and the scales whose width the walks have measured
Measured(domain, range, cur, testScale) ==
    [scale |-> testScale, width |-> calculateBucketWidth(domain, range, testScale),
     tested |-> Append(cur.tested, testScale)]

\* The minWidth loop from index i on
RECURSIVE MinWalk(_, _, _, _, _)
\* The minWidth loop leaving at its first iteration, whatever the width
MinWalkTestFirstCoarser(domain, range, minWidth, i, cur, test) == test

MinWalkTest(domain, range, minWidth, i, cur, test) ==
    IF WidthGe(test.width, minWidth) THEN test
    ELSE IF i = Len(TIMESCALE_HIERARCHY) THEN test
    ELSE MinWalk(domain, range, minWidth, i + 1, [cur EXCEPT !.tested = test.tested])

MinWalk(domain, range, minWidth, i, cur) ==
    IF i > Len(TIMESCALE_HIERARCHY) THEN cur
    ELSE MinWalkTest(domain, range, minWidth, i, cur,
                     Measured(domain, range, cur, TIMESCALE_HIERARCHY[i]))

\* The maxWidth loop from index i down
RECURSIVE MaxWalk(_, _, _, _, _)
\* The maxWidth loop without its "first scale, use it anyway" step
MaxWalkTestNoFallback(domain, range, maxWidth, i, cur, test) ==
    IF WidthLe(test.width, maxWidth) THEN test
    ELSE IF i = 1 THEN [cur EXCEPT !.tested = test.tested]
    ELSE MaxWalk(domain, range, maxWidth, i - 1, [cur EXCEPT !.tested = test.tested])

MaxWalkTest(domain, range, maxWidth, i, cur, test) ==
    IF WidthLe(test.width, maxWidth) THEN test
    ELSE IF i = 1 THEN test
    ELSE MaxWalk(domain, range, maxWidth, i - 1, [cur EXCEPT !.tested = test.tested])

MaxWalk(domain, range, maxWidth, i, cur) ==
    IF i < 1 THEN cur
    ELSE MaxWalkTest(domain, range, maxWidth, i, cur,
                     Measured(domain, range, cur, TIMESCALE_HIERARCHY[i]))

\* The minWidth walk started two levels up, passing over the next scale
AdjustForMinWidthSkipNext(domain, range, bucketSize, currentScaleIndex, cur) ==
    IF ~bucketSize.minWidth.isNull /\ WidthLt(cur.width, bucketSize.minWidth.px)
    THEN MinWalk(domain, range, bucketSize.minWidth.px, currentScaleIndex + 2, cur)
    ELSE cur

\* Adjust for minWidth: try larger timescales
AdjustForMinWidth(domain, range, bucketSize, currentScaleIndex, cur) ==
    IF ~bucketSize.minWidth.isNull /\ WidthLt(cur.width, bucketSize.minWidth.px)
    THEN MinWalk(domain, range, bucketSize.minWidth.px, currentScaleIndex + 1, cur)
    ELSE cur

\* Adjust for maxWidth: try smaller timescales
AdjustForMaxWidth(domain, range, bucketSize, currentScaleIndex, cur) ==
    IF ~bucketSize.maxWidth.isNull /\ WidthGt(cur.width, bucketSize.maxWidth.px)
    THEN MaxWalk(domain, range, bucketSize.maxWidth.px, currentScaleIndex - 1, cur)
    ELSE cur

RefineResult(normalised, cur) ==
    [scale |-> cur.scale, normalised |-> normalised, tested |-> cur.tested]

\* The two adjustments from a scale of the hierarchy; currentScaleIndex keeps
\* the index of that first scale throughout
RefineFrom(domain, range, bucketSize, normalised, bucketScale) ==
    RefineResult(normalised,
        AdjustForMaxWidth(domain, range, bucketSize, IndexOf(bucketScale),
            AdjustForMinWidth(domain, range, bucketSize, IndexOf(bucketScale),
                [scale |-> bucketScale,
                 width |-> calculateBucketWidth(domain, range, bucketScale),
                 tested |-> <<>>])))

\* Returns [scale, normalised, tested]: the refined scale, whether the
\* not-in-hierarchy branch was taken, and the scales the walks measured
refineBucketScale(domain, range, bucketScale, bucketSize) ==
    RefineFrom(domain, range, bucketSize, IndexOf(bucketScale) = 0,
               IF IndexOf(bucketScale) = 0 THEN "days" ELSE bucketScale)

-----------------------------------------------------------------------------
(* The resolver                                                            *)

\* config.numberDisplayedTicks[breakpointLabel], when there is one
NoTickHint == [has |-> FALSE, count |-> 0]
TickHint(n) == [has |-> TRUE, count |-> n]

DefaultTickCount == 10

\* tickScale: from the domain's duration when fewer than two ticks came back
TickScaleOf(domainInfo, sampleTicks) ==
    IF Len(sampleTicks) < 2
    THEN detectTickScaleFromDuration(Minus(domainInfo.end, domainInfo.start))
    ELSE detectTickScaleFromTicks(sampleTicks)

Refined(tickCount, r) ==
    [scale |-> r.scale, ticksAsked |-> <<tickCount>>, refined |-> TRUE,
     normalised |-> r.normalised]

\* The part of getTimeScale after the tick scale is mapped to the bucket scale
BucketScaleOf(domain, range, tickCount, bucketSize, bucketScale) ==
    IF bucketSize.set /\ (~bucketSize.minWidth.isNull \/ ~bucketSize.maxWidth.isNull)
    THEN Refined(tickCount, refineBucketScale(domain, range, bucketScale, bucketSize))
    ELSE [scale |-> bucketScale, ticksAsked |-> <<tickCount>>, refined |-> FALSE,
          normalised |-> FALSE]

\* Returns [scale, ticksAsked, refined, normalised]: the bucket granularity,
\* the counts xScale.ticks was called with, whether refineBucketScale ran and
\* whether it took its not-in-hierarchy branch
getTimeScale(domain, range, ticks, tickHint, bucketSize) ==
    IF ~validateDomain(domain).ok
    THEN [scale |-> "days", ticksAsked |-> <<>>, refined |-> FALSE,
          normalised |-> FALSE]
    ELSE BucketScaleOf(domain, range,
            IF tickHint.has THEN tickHint.count ELSE DefaultTickCount,
            bucketSize, BUCKET_SCALE_MAP[TickScaleOf(validateDomain(domain), ticks)])

HeatmapScales == {"days", "weeks", "months", "years", "decades"}

\* shouldUseHeatmap with the list of its doc comment: days, weeks, months, years
shouldUseHeatmapNoDecades(domain, range, ticks, tickHint, bucketSize) ==
    IF ~validateDomain(domain).ok THEN FALSE
    ELSE getTimeScale(domain, range, ticks, tickHint, bucketSize).scale
            \in {"days", "weeks", "months", "years"}

shouldUseHeatmap(domain, range, ticks, tickHint, bucketSize) ==
    IF ~validateDomain(domain).ok THEN FALSE
    ELSE getTimeScale(domain, range, ticks, tickHint, bucketSize).scale
            \in HeatmapScales

\* getTimeInterval: the d3 interval the heatmap buckets with
getTimeInterval(domain, range, ticks, tickHint, bucketSize) ==
    IF ~validateDomain(domain).ok THEN "timeDay"
    ELSE getD3TimeInterval(
            getTimeScale(domain, range, ticks, tickHint, bucketSize).scale)

-----------------------------------------------------------------------------
(* The aggregator (heatmap.js)                                             *)

\* An event is [id, date]: date is what the dropDate accessor returns for it
Event(id, date) == [id |-> id, date |-> date]

\* The events argument: an array of events, or something that is no array
NoArray == [isArray |-> FALSE, items |-> <<>>]
Array(items) == [isArray |-> TRUE, items |-> items]

\* A row datum d: present is FALSE when d or d.data is missing
NoRow == [present |-> FALSE, data |-> NoArray]
Row(data) == [present |-> TRUE, data |-> data]

\* eventDate < domainStart || eventDate >= domainEnd
OutsideDomain(eventDate, domainStart, domainEnd) ==
    Less(eventDate, domainStart) \/ ~Less(eventDate, domainEnd)

\* The envelope test with > for >= on the lower bound
InEnvelopeStrict(bucketDate, bucketStartBound, bucketEndBound) ==
    Less(bucketStartBound, bucketDate) /\ Leq(bucketDate, bucketEndBound)

\* bucketDate >= bucketStartBound && bucketDate <= bucketEndBound
InEnvelope(bucketDate, bucketStartBound, bucketEndBound) ==
    Leq(bucketStartBound, bucketDate) /\ Leq(bucketDate, bucketEndBound)

\* buckets.has(key) / get / set on the Map, kept in insertion order
BucketIndex(buckets, bucketDate) ==
    IF \E i \in DOMAIN buckets : buckets[i].date = bucketDate
    THEN CHOOSE i \in DOMAIN buckets : buckets[i].date = bucketDate
    ELSE 0

\* bucket.events.unshift(event) for push: the newest member first
AddToBucketFront(buckets, bucketDate, event) ==
    LET i == BucketIndex(buckets, bucketDate)
        withKey == IF i = 0
                   THEN Append(buckets, [date |-> bucketDate, count |-> 0, events |-> <<>>])
                   ELSE buckets
        k == IF i = 0 THEN Len(withKey) ELSE i
    IN  [withKey EXCEPT ![k].count = @ + 1, ![k].events = <<event>> \o @]

AddToBucket(buckets, bucketDate, event) ==
    LET i == BucketIndex(buckets, bucketDate)
        withKey == IF i = 0
                   THEN Append(buckets, [date |-> bucketDate, count |-> 0, events |-> <<>>])
                   ELSE buckets
        k == IF i = 0 THEN Len(withKey) ELSE i
    IN  [withKey EXCEPT ![k].count = @ + 1, ![k].events = Append(@, event)]

\* The body of events.forEach without the domain and envelope tests
ForEachEventUnfiltered(buckets, event, timeInterval, domainStart, domainEnd, bucketStartBound, bucketEndBound) ==
    IF ~(event.date.kind = "date") THEN buckets
    ELSE AddToBucket(buckets, IntervalFloor(timeInterval, event.date.t), event)

\* The body of events.forEach with an event without a valid date counted in
\* the first bucket of the envelope instead of skipped
ForEachEventCountsInvalid(buckets, event, timeInterval, domainStart, domainEnd, bucketStartBound, bucketEndBound) ==
    IF ~(event.date.kind = "date") THEN AddToBucket(buckets, bucketStartBound, event)
    ELSE IF OutsideDomain(event.date.t, domainStart, domainEnd) THEN buckets
    ELSE IF InEnvelope(IntervalFloor(timeInterval, event.date.t),
                       bucketStartBound, bucketEndBound)
    THEN AddToBucket(buckets, IntervalFloor(timeInterval, event.date.t), event)
    ELSE buckets

\* The body of events.forEach
ForEachEvent(buckets, event, timeInterval, domainStart, domainEnd, bucketStartBound, bucketEndBound) ==
    IF ~(event.date.kind = "date") THEN buckets
    ELSE IF OutsideDomain(event.date.t, domainStart, domainEnd) THEN buckets
    ELSE LET bucketDate == IntervalFloor(timeInterval, event.date.t)
         IN  IF InEnvelope(bucketDate, bucketStartBound, bucketEndBound)
             THEN AddToBucket(buckets, bucketDate, event)
             ELSE buckets

RECURSIVE ForEach(_, _, _, _, _, _, _, _)
ForEach(buckets, items, i, timeInterval, domainStart, domainEnd, bucketStartBound, bucketEndBound) ==
    IF i > Len(items) THEN buckets
    ELSE ForEach(ForEachEvent(buckets, items[i], timeInterval, domainStart, domainEnd,
                              bucketStartBound, bucketEndBound),
                 items, i + 1, timeInterval, domainStart, domainEnd,
                 bucketStartBound, bucketEndBound)

\* Array.prototype.sort((a, b) => a.date - b.date): stable, ascending
RECURSIVE InsertByDate(_, _)
InsertByDate(sorted, b) ==
    IF sorted = <<>> THEN <<b>>
    ELSE IF Less(b.date, sorted[1].date) THEN <<b>> \o sorted
    ELSE <<sorted[1]>> \o InsertByDate(Tail(sorted), b)

RECURSIVE SortByDateFrom(_, _, _)
SortByDateFrom(buckets, i, sorted) ==
    IF i > Len(buckets) THEN sorted
    ELSE SortByDateFrom(buckets, i + 1, InsertByDate(sorted, buckets[i]))

\* No sort: the Map's insertion order
SortByDateNone(buckets) == buckets

SortByDate(buckets) == SortByDateFrom(buckets, 1, <<>>)

aggregateEvents(domain, events, timeInterval) ==
    LET domainInfo == validateDomain(domain)
        bucketStartBound == IntervalFloor(timeInterval, domainInfo.start)
        bucketEndBound == IntervalCeil(timeInterval, domainInfo.end)
    IN  IF ~domainInfo.ok THEN <<>>
        ELSE IF ~events.isArray THEN SortByDate(<<>>)
        ELSE SortByDate(ForEach(<<>>, events.items, 1, timeInterval,
                                domainInfo.start, domainInfo.end,
                                bucketStartBound, bucketEndBound))

-----------------------------------------------------------------------------
(* The normaliser                                                          *)

\* Math.max(...counts, 0)
RECURSIVE MaxCountFrom(_, _, _)
MaxCountFrom(buckets, i, m) ==
    IF i > Len(buckets) THEN m
    ELSE MaxCountFrom(buckets, i + 1, IF buckets[i].count > m THEN buckets[i].count ELSE m)

\* The first bucket's count taken for the maximum
getMaxIntensityFirst(buckets) ==
    IF Len(buckets) = 0 THEN 1
    ELSE IF buckets[1].count > 0 THEN buckets[1].count ELSE 1

getMaxIntensity(buckets) ==
    IF Len(buckets) = 0 THEN 1
    ELSE LET maxCount == MaxCountFrom(buckets, 1, 0)
         IN  IF maxCount > 0 THEN maxCount ELSE 1

RECURSIVE Gcd(_, _)
Gcd(a, b) == IF b = 0 THEN a ELSE Gcd(b, a % b)

\* The number a / b (b > 0) in lowest terms
Ratio(a, b) == [num |-> a \div Gcd(a, b), den |-> b \div Gcd(a, b)]

\* maxCount > 0 ? Math.min(count / maxCount, 1) : 0
Intensity(count, maxCount) ==
    IF maxCount > 0
    THEN IF count > maxCount THEN Ratio(1, 1) ELSE Ratio(count, maxCount)
    ELSE Ratio(0, 1)

getHeatmapBucketData(domain, timeInterval, d) ==
    IF ~d.present THEN <<>>
    ELSE LET buckets == aggregateEvents(domain, d.data, timeInterval)
             maxCount == getMaxIntensity(buckets)
         IN  [i \in DOMAIN buckets |->
                [date |-> buckets[i].date, count |-> buckets[i].count,
                 events |-> buckets[i].events,
                 intensity |-> Intensity(buckets[i].count, maxCount)]]

-----------------------------------------------------------------------------
(* The rows of the chart (dropLine and the two components that draw them)  *)

\* A .drop-line row as far as its .drops group goes: the number of .drop and
\* of .heatmap-rect elements in the group, whether its filter style is
\* url(#metaballs), its heatmap-container class, and (for the properties) how
\* the row stood before the latest pass: "new", "drop" or "heatmap"
NewDrops(useHeatmap) ==
    [drop |-> 0, rect |-> 0, filter |-> FALSE, heatmapContainer |-> useHeatmap,
     before |-> "new"]

\* The heatmap component on one .drops group: the .heatmap-rect elements are
\* joined to the buckets of the row, entering ones appended, exiting removed
heatmap(domain, range, ticks, tickHint, bucketSize, el, d) ==
    [el EXCEPT !.rect =
        Len(getHeatmapBucketData(domain,
                getTimeInterval(domain, range, ticks, tickHint, bucketSize), d))]

\* The drop component on one .drops group: the .drop elements are joined to
\* the events of the row
drop(el, d) ==
    [el EXCEPT !.drop = IF d.present /\ d.data.isArray THEN Len(d.data.items) ELSE 0]

renderComponent(useHeatmap, domain, range, ticks, tickHint, bucketSize, el, d) ==
    IF useHeatmap THEN heatmap(domain, range, ticks, tickHint, bucketSize, el, d)
    ELSE drop(el, d)

\* No clean-up of the other component's elements
CleanOppositeNone(el, useHeatmap) == el

\* selectAll('.drop').remove() before a heatmap, selectAll('.heatmap-rect')
\* .remove() before drops
CleanOpposite(el, useHeatmap) ==
    IF useHeatmap THEN [el EXCEPT !.drop = 0] ELSE [el EXCEPT !.rect = 0]

\* The filter of a row that has just entered
EnterFilter(el, useHeatmap, metaballs) ==
    IF metaballs /\ ~useHeatmap THEN [el EXCEPT !.filter = TRUE]
    ELSE IF useHeatmap THEN [el EXCEPT !.filter = FALSE]
    ELSE el

\* The filter of a row that was there before the pass
UpdateFilter(el, useHeatmap, metaballs) ==
    IF metaballs THEN [el EXCEPT !.filter = ~useHeatmap] ELSE el

\* A row of the enter selection
EnterRow(useHeatmap, metaballs, domain, range, ticks, tickHint, bucketSize, d) ==
    EnterFilter(
        renderComponent(useHeatmap, domain, range, ticks, tickHint, bucketSize,
                        CleanOpposite(NewDrops(useHeatmap), useHeatmap), d),
        useHeatmap, metaballs)

\* A row of the update selection
UpdateRow(useHeatmap, metaballs, domain, range, ticks, tickHint, bucketSize, el, d) ==
    renderComponent(useHeatmap, domain, range, ticks, tickHint, bucketSize,
        UpdateFilter(
            CleanOpposite(
                [el EXCEPT !.heatmapContainer = useHeatmap,
                           !.before = IF el.heatmapContainer THEN "heatmap" ELSE "drop"],
                useHeatmap),
            useHeatmap, metaballs),
        d)

\* The rows after a pass over the data rows: joined by index, rows past the
\* data removed (lines.exit().remove())
RenderRows(rows, data, useHeatmap, metaballs, domain, range, ticks, tickHint, bucketSize) ==
    [i \in 1..Len(data) |->
        IF i <= Len(rows)
        THEN UpdateRow(useHeatmap, metaballs, domain, range, ticks, tickHint,
                       bucketSize, rows[i], data[i])
        ELSE EnterRow(useHeatmap, metaballs, domain, range, ticks, tickHint,
                      bucketSize, data[i])]

-----------------------------------------------------------------------------
(* Inputs                                                                  *)

MaxTicks == 2       \* longest tick sequence the oracle returns
MaxEvents == 3      \* most events in a row

Jan1 == At(2020, 1, 1, 0)
Jan8 == At(2020, 1, 8, 0)
Jan31 == At(2020, 1, 31, 0)

DomWeek == Domain(<<DateOf(Jan1), DateOf(Jan8)>>)
DomMonth == Domain(<<DateOf(Jan1), DateOf(Jan31)>>)
DomHours == Domain(<<DateOf(At(2020, 3, 10, 29700250)), DateOf(At(2020, 3, 10, 35100000))>>)
DomYears == Domain(<<DateOf(At(2018, 6, 15, 43200000)), DateOf(At(2031, 2, 1, 0))>>)
DomAges == Domain(<<DateOf(At(1000, 1, 1, 0)), DateOf(At(2100, 1, 1, 0))>>)
DomUneven == Domain(<<DateOf(At(2020, 1, 1, 37800500)), DateOf(At(2020, 1, 5, 64800000))>>)
DomSeconds == Domain(<<DateOf(At(2020, 3, 10, 1000)), DateOf(At(2020, 3, 10, 3000))>>)
DomReversed == Domain(<<DateOf(Jan31), DateOf(Jan1)>>)
DomEmpty == Domain(<<DateOf(Jan1), DateOf(Jan1)>>)

\* Domains validateDomain accepts with start < end
ProperDomains == {DomWeek, DomMonth, DomHours, DomYears, DomAges, DomUneven}
\* Two valid instants, start >= end
BackwardDomains == {DomReversed, DomEmpty}
MalformedDomains ==
    {NoDomain, Domain(<<>>), Domain(<<DateOf(Jan1)>>),
     Domain(<<InvalidDate, DateOf(Jan8)>>), Domain(<<DateOf(Jan1), NotADate>>)}

Ranges == {300, 1200}
PxChoices == {2, 50, 60, 400}
PxOrNull == {NullPx} \cup {Px(n) : n \in PxChoices}
SizeConstraints == {BucketSize(min, max) : min \in PxOrNull, max \in PxOrNull}

TickHints == {NoTickHint, TickHint(3)}

\* Instants the tick oracle answers with
TickInstants ==
    {Jan1, At(2020, 1, 1, 1500), At(2020, 1, 3, 0), At(2020, 2, 1, 0),
     At(2021, 1, 1, 0), At(2035, 1, 1, 0)}

\* More instants, for every tick granularity from milliseconds to millennium
TickInstantsWide ==
    TickInstants \cup
    {At(2020, 1, 1, 2000), At(2020, 1, 1, 300000), At(2020, 1, 1, 21600000),
     At(2020, 1, 15, 0), At(2030, 1, 1, 0), At(3020, 1, 1, 0)}

MaxRows == 2        \* most rows bound to the selection

RECURSIVE SeqsUpTo(_, _)
SeqsUpTo(S, n) ==
    IF n = 0 THEN {<<>>}
    ELSE LET shorter == SeqsUpTo(S, n - 1)
         IN  shorter \cup {Append(q, x) : q \in shorter, x \in S}

TickSeqs == SeqsUpTo(TickInstants, MaxTicks)

\* The ordered sequences of ticks a time scale's oracle answers with
Ascending(q) == \A i \in DOMAIN q : \A j \in DOMAIN q : i < j => Less(q[i], q[j])
TickSeqsWide == {q \in SeqsUpTo(TickInstantsWide, MaxTicks) : Ascending(q)}

\* What dropDate returns for the events of a row
EventDates ==
    {DateOf(At(2019, 12, 31, MsPerDay - 1)), DateOf(Jan1),
     DateOf(At(2020, 1, 2, 32400250)), DateOf(At(2020, 1, 2, 32400000)),
     DateOf(At(2020, 1, 5, 0)), DateOf(Jan8), InvalidDate, NotADate}

\* The events of a row: the i-th has id i
EventsOf(dates) == [i \in DOMAIN dates |-> Event(i, dates[i])]

Rows == {Row(Array(EventsOf(q))) : q \in SeqsUpTo(EventDates, MaxEvents)}
           \cup {NoRow, Row(NoArray)}

\* The rows of a chart: without data, without events, with three events
RowChoices ==
    {NoRow, Row(Array(<<>>)),
     Row(Array(EventsOf(<<DateOf(At(2020, 1, 2, 32400250)),
                          DateOf(At(2020, 1, 2, 32400000)),
                          DateOf(At(2020, 1, 5, 0))>>)))}

RowSets == SeqsUpTo(RowChoices, MaxRows)

\* The time windows the chart is zoomed between: a week (buckets of a day,
\* heatmap) and an hour and a half (buckets of a minute, drops)
ZoomDomains == {DomWeek, DomHours}

-----------------------------------------------------------------------------
(* The state machine: Init draws the inputs, each action is one call       *)

NoResults ==
    /\ done = {}
    /\ outRefined = [scale |-> "days", normalised |-> FALSE, tested |-> <<>>]
    /\ outTimeScale = [scale |-> "days", ticksAsked |-> <<>>, refined |-> FALSE,
                    normalised |-> FALSE]
    /\ outUseHeatmap = FALSE
    /\ outComponent = "none"
    /\ outBuckets = <<>>
    /\ outHeatData = <<>>
    /\ outTickScale = [scale |-> "days", candidates |-> <<>>]
    /\ dom = <<>>

\* refineBucketScale(d3, xScale, bucketScale, bucketSize)
Refine ==
    /\ "Refine" \notin done
    /\ cfgBucketSize.set
    /\ done' = done \cup {"Refine"}
    /\ outRefined' = refineBucketScale(xDomain, xRange, scaleIn, cfgBucketSize)
    /\ UNCHANGED <<inputs, outTimeScale, outUseHeatmap, outComponent, outBuckets, outHeatData,
                 outTickScale, dom>>

\* getTimeScale(d3, xScale, numberDisplayedTicks, breakpointLabel, bucketSize)
GetTimeScale ==
    /\ "GetTimeScale" \notin done
    /\ done' = done \cup {"GetTimeScale"}
    /\ outTimeScale' = getTimeScale(xDomain, xRange, xTicks, cfgTickHint, cfgBucketSize)
    /\ UNCHANGED <<inputs, outRefined, outUseHeatmap, outComponent, outBuckets, outHeatData,
                 outTickScale, dom>>

\* shouldUseHeatmap(d3, xScale, numberDisplayedTicks, breakpointLabel, bucketSize)
ShouldUseHeatmap ==
    /\ "ShouldUseHeatmap" \notin done
    /\ "DropLine" \notin done
    /\ done' = done \cup {"ShouldUseHeatmap"}
    /\ outUseHeatmap' = shouldUseHeatmap(xDomain, xRange, xTicks, cfgTickHint, cfgBucketSize)
    /\ UNCHANGED <<inputs, outRefined, outTimeScale, outComponent, outBuckets, outHeatData,
                 outTickScale, dom>>

\* dropLine(config, xScale, breakpointLabel)(selection): one render pass, the
\* choice of the component and the rows it leaves
DropLine ==
    /\ "DropLine" \notin done
    /\ done' = done \cup {"DropLine"}
    /\ outUseHeatmap' = shouldUseHeatmap(xDomain, xRange, xTicks, cfgTickHint, cfgBucketSize)
    /\ outComponent' = IF outUseHeatmap' THEN "heatmap" ELSE "drop"
    /\ dom' = RenderRows(dom, selData, outUseHeatmap', cfgMetaballs, xDomain, xRange,
                         xTicks, cfgTickHint, cfgBucketSize)
    /\ UNCHANGED <<inputs, outRefined, outTimeScale, outBuckets, outHeatData,
                 outTickScale>>

\* A zoom or pan: the next pass gets a scale over another time window
Zoom ==
    /\ xDomain' \in ZoomDomains \ {xDomain}
    /\ done' = {}
    /\ UNCHANGED <<xRange, xTicks, cfgBucketSize, cfgTickHint, scaleIn, rowData, selData,
                   cfgMetaballs, results, dom>>

\* A change of the data bound to the selection: rows come and go
SetData ==
    /\ selData' \in RowSets \ {selData}
    /\ done' = {}
    /\ UNCHANGED <<xDomain, xRange, xTicks, cfgBucketSize, cfgTickHint, scaleIn, rowData,
                   cfgMetaballs, results, dom>>

\* aggregateEvents(xScale, dropDate, events, timeInterval)
AggregateEvents ==
    /\ "AggregateEvents" \notin done
    /\ rowData.present
    /\ done' = done \cup {"AggregateEvents"}
    /\ outBuckets' = aggregateEvents(xDomain, rowData.data, getD3TimeInterval(scaleIn))
    /\ UNCHANGED <<inputs, outRefined, outTimeScale, outUseHeatmap, outComponent, outHeatData,
                 outTickScale, dom>>

\* getHeatmapBucketData(xScale, dropDate, timeInterval)(d)
GetHeatmapBucketData ==
    /\ "GetHeatmapBucketData" \notin done
    /\ done' = done \cup {"GetHeatmapBucketData"}
    /\ outHeatData' = getHeatmapBucketData(xDomain, getD3TimeInterval(scaleIn), rowData)
    /\ UNCHANGED <<inputs, outRefined, outTimeScale, outUseHeatmap, outComponent, outBuckets,
                 outTickScale, dom>>

\* detectTickScaleFromTicks(d3, sampleTicks)
DetectTickScaleFromTicks ==
    /\ "DetectTickScaleFromTicks" \notin done
    /\ done' = done \cup {"DetectTickScaleFromTicks"}
    /\ outTickScale' =
            [scale |-> detectTickScaleFromTicks(xTicks),
             candidates |-> IF Len(xTicks) < 2 THEN <<>>
                            ELSE TickCandidates(xTicks[1], xTicks[2])]
    /\ UNCHANGED <<inputs, outRefined, outTimeScale, outUseHeatmap, outComponent,
                   outBuckets, outHeatData, dom>>

\* The refiner on its own
InitRefine ==
    /\ xDomain \in {DomMonth, DomHours, DomYears, DomSeconds, DomReversed, NoDomain}
    /\ xRange \in Ranges
    /\ xTicks = <<>>
    /\ cfgBucketSize \in SizeConstraints
    /\ cfgTickHint = NoTickHint
    /\ scaleIn \in AllScales
    /\ rowData = NoRow
    /\ selData = <<>>
    /\ cfgMetaballs = FALSE
    /\ NoResults

NextRefine == Refine

SpecRefine == InitRefine /\ [][NextRefine]_vars

\* The resolver, the heatmap decision and dropLine's choice
InitTimeScale ==
    /\ xDomain \in ProperDomains \cup BackwardDomains \cup MalformedDomains
    /\ xRange = 300
    /\ xTicks \in TickSeqs
    /\ cfgBucketSize \in {NoBucketSize, BucketSize(NullPx, NullPx),
                          BucketSize(Px(50), NullPx), BucketSize(NullPx, Px(2)),
                          BucketSize(Px(50), Px(400))}
    /\ cfgTickHint \in TickHints
    /\ scaleIn = "days"
    /\ rowData = NoRow
    /\ selData = <<>>
    /\ cfgMetaballs = FALSE
    /\ NoResults

NextTimeScale == GetTimeScale \/ ShouldUseHeatmap \/ DropLine

SpecTimeScale == InitTimeScale /\ [][NextTimeScale]_vars

\* Tick detection and what the resolver and dropLine make of it
InitTicks ==
    /\ xDomain \in {DomMonth, DomAges}
    /\ xRange = 300
    /\ xTicks \in TickSeqsWide
    /\ cfgBucketSize \in {NoBucketSize, BucketSize(Px(50), NullPx)}
    /\ cfgTickHint = NoTickHint
    /\ scaleIn = "days"
    /\ rowData = NoRow
    /\ selData = <<>>
    /\ cfgMetaballs = FALSE
    /\ NoResults

NextTicks == DetectTickScaleFromTicks \/ GetTimeScale \/ ShouldUseHeatmap \/ DropLine

SpecTicks == InitTicks /\ [][NextTicks]_vars

\* Render passes of dropLine between zooms and data changes
InitRender ==
    /\ xDomain \in ZoomDomains
    /\ xRange = 300
    /\ xTicks = <<>>
    /\ cfgBucketSize = NoBucketSize
    /\ cfgTickHint = NoTickHint
    /\ scaleIn = "days"
    /\ rowData = NoRow
    /\ selData \in RowSets
    /\ cfgMetaballs \in BOOLEAN
    /\ NoResults

NextRender == DropLine \/ Zoom \/ SetData

SpecRender == InitRender /\ [][NextRender]_vars

\* The aggregator and the normaliser
InitAggregate ==
    /\ xDomain \in {DomWeek, DomUneven, DomReversed, NoDomain,
                    Domain(<<InvalidDate, DateOf(Jan8)>>)}
    /\ xRange = 300
    /\ xTicks = <<>>
    /\ cfgBucketSize = NoBucketSize
    /\ cfgTickHint = NoTickHint
    /\ scaleIn \in AllScales
    /\ rowData \in Rows
    /\ selData = <<>>
    /\ cfgMetaballs = FALSE
    /\ NoResults

NextAggregate == AggregateEvents \/ GetHeatmapBucketData

SpecAggregate == InitAggregate /\ [][NextAggregate]_vars

-----------------------------------------------------------------------------
(* Properties of the refiner (SpecRefine)                                  *)

\* The pixel width of one bucket of granularity g on the current scale
WidthOf(g) == calculateBucketWidth(xDomain, xRange, g)

\* The index the walks start from: the initial granularity's, or that of days
\* when the initial granularity is not in the hierarchy
StartIndex == IF scaleIn \in Granularities THEN IndexOf(scaleIn) ELSE IndexOf("days")

MinWidthPx == cfgBucketSize.minWidth.px
MaxWidthPx == cfgBucketSize.maxWidth.px

\* Indices at or above the start whose bucket is at least minWidthPx wide
WideEnough ==
    {j \in StartIndex..Len(TIMESCALE_HIERARCHY) :
        WidthGe(WidthOf(TIMESCALE_HIERARCHY[j]), MinWidthPx)}

FirstWideEnough == CHOOSE j \in WideEnough : \A k \in WideEnough : j <= k

\* Indices at or below the start whose bucket is at most maxWidthPx wide
NarrowEnough ==
    {j \in 1..StartIndex : WidthLe(WidthOf(TIMESCALE_HIERARCHY[j]), MaxWidthPx)}

C2_MaxWidthAlwaysMet ==
    ("Refine" \in done /\ scaleIn \in Granularities
        /\ ~cfgBucketSize.maxWidth.isNull /\ NarrowEnough # {})
    => WidthLe(WidthOf(outRefined.scale), MaxWidthPx)

-----------------------------------------------------------------------------
(* Properties of the resolver (SpecTimeScale)                              *)

\* Two bounds, both valid instants
TwoInstants(domain) ==
    /\ domain.present
    /\ Len(domain.vals) >= 2
    /\ domain.vals[1].kind = "date"
    /\ domain.vals[2].kind = "date"

\* start >= end
Backward(domain) == TwoInstants(domain) /\ ~Less(domain.vals[1].t, domain.vals[2].t)

\* Missing, fewer than two values, or a bound that is no valid instant
Malformed(domain) == ~TwoInstants(domain)

\* C3 as stated: a domain of two valid instants with start >= end is rejected:
\* validateDomain returns null, so getTimeScale answers days and samples no tick.
C3_BackwardDomainRejected ==
    ("GetTimeScale" \in done /\ Backward(xDomain))
    => /\ ~validateDomain(xDomain).ok
       /\ outTimeScale.scale = "days"
       /\ outTimeScale.ticksAsked = <<>>

\* The part of C3 that does hold (SpecAggregate): no event lies in [start, end)
\* when start >= end, so aggregateEvents returns no bucket.
C3_BackwardDomainAggregatesNothing ==
    ("AggregateEvents" \in done /\ Backward(xDomain)) => outBuckets = <<>>

\* C4: for a malformed domain, whatever the tick hint and the size constraint,
\* getTimeScale returns days, never asks the scale for ticks and never refines.
C4_MalformedDomainGivesDays ==
    ("GetTimeScale" \in done /\ Malformed(xDomain))
    => /\ outTimeScale.scale = "days"
       /\ outTimeScale.ticksAsked = <<>>
       /\ ~outTimeScale.refined

\* C4 witness: a malformed domain resolved under a tick hint, a size
\* constraint and an oracle that would return two ticks
C4_Witness ==
    /\ "GetTimeScale" \in done
    /\ Malformed(xDomain)
    /\ xDomain.present /\ Len(xDomain.vals) = 2
    /\ cfgTickHint.has
    /\ ~cfgBucketSize.minWidth.isNull
    /\ Len(xTicks) = 2
    /\ outTimeScale.scale = "days"

\* C5: getTimeScale returns one of the nine granularities of the hierarchy,
\* never millennium, and its call of the refiner never takes the branch that
\* normalises an unknown granularity to days.
C5_ResultInHierarchy ==
    "GetTimeScale" \in done
    => /\ outTimeScale.scale \in
            {"milliseconds", "seconds", "minutes", "hours", "days", "weeks",
             "months", "years", "decades"}
       /\ ~outTimeScale.normalised

\* C5 witness: a domain of more than a thousand years without ticks (tick
\* granularity millennium), refined under a size constraint
C5_Witness ==
    /\ "GetTimeScale" \in done
    /\ xDomain = DomAges
    /\ Len(xTicks) < 2
    /\ outTimeScale.refined
    /\ outTimeScale.scale = "decades"

-----------------------------------------------------------------------------
(* Properties of the aggregator and the normaliser (SpecAggregate)         *)

DomainStart == xDomain.vals[1].t
DomainEnd == xDomain.vals[2].t
BucketInterval == getD3TimeInterval(scaleIn)

\* The positions of the supplied events whose instant is valid and lies in
\* [domain.start, domain.end)
InDomainEvents ==
    {i \in DOMAIN rowData.data.items :
        /\ rowData.data.items[i].date.kind = "date"
        /\ Leq(DomainStart, rowData.data.items[i].date.t)
        /\ Less(rowData.data.items[i].date.t, DomainEnd)}

RECURSIVE SumCounts(_, _)
SumCounts(bs, i) == IF i > Len(bs) THEN 0 ELSE bs[i].count + SumCounts(bs, i + 1)

\* C6: for a domain of two valid instants, the counts of the buckets add up to
\* the number of supplied events with a valid instant in [start, end): the
\* envelope guard drops none of them.
C6_CountsAddUp ==
    ("AggregateEvents" \in done /\ TwoInstants(xDomain))
    => SumCounts(outBuckets, 1) = Cardinality(InDomainEvents)

\* C6 witness: weekly buckets over a domain that starts mid-week, with an
\* event exactly at domain.start (counted), one exactly at domain.end (not
\* counted) and one without a valid instant
C6_Witness ==
    /\ "AggregateEvents" \in done
    /\ xDomain = DomWeek /\ scaleIn = "weeks"
    /\ \E i \in DOMAIN rowData.data.items : rowData.data.items[i].date = DateOf(DomainStart)
    /\ \E i \in DOMAIN rowData.data.items : rowData.data.items[i].date = DateOf(DomainEnd)
    /\ \E i \in DOMAIN rowData.data.items : rowData.data.items[i].date = InvalidDate
    /\ SumCounts(outBuckets, 1) = 1

\* C7: every bucket's start lies in [floor(domain.start), ceil(domain.end)] at
\* the bucketing granularity.
C7_BucketsInEnvelope ==
    ("AggregateEvents" \in done /\ TwoInstants(xDomain))
    => \A i \in DOMAIN outBuckets :
          /\ Leq(IntervalFloor(BucketInterval, DomainStart), outBuckets[i].date)
          /\ Leq(outBuckets[i].date, IntervalCeil(BucketInterval, DomainEnd))

\* C7 witness: a bucket that starts at floor(domain.start), before the domain
C7_Witness ==
    /\ "AggregateEvents" \in done
    /\ TwoInstants(xDomain)
    /\ \E i \in DOMAIN outBuckets :
          /\ outBuckets[i].date = IntervalFloor(BucketInterval, DomainStart)
          /\ Less(outBuckets[i].date, DomainStart)

\* C8: the buckets are in strictly ascending order of start (so no two share
\* a start), whatever the order of the events, and each holds an event.
C8_SortedAndSparse ==
    "AggregateEvents" \in done
    => /\ \A i \in DOMAIN outBuckets : \A j \in DOMAIN outBuckets :
            i < j => Less(outBuckets[i].date, outBuckets[j].date)
       /\ \A i \in DOMAIN outBuckets :
            outBuckets[i].count >= 1 /\ Len(outBuckets[i].events) >= 1

\* C8 witness: two buckets from events supplied latest first
C8_Witness ==
    /\ "AggregateEvents" \in done
    /\ Len(outBuckets) >= 2
    /\ outBuckets[2].events[1].id < outBuckets[1].events[1].id

\* The largest count among the buckets bs (bs not empty)
MaxCountOf(bs) ==
    CHOOSE m \in {bs[i].count : i \in DOMAIN bs} : \A i \in DOMAIN bs : bs[i].count <= m

\* C9: each bucket of getHeatmapBucketData has intensity count / (largest
\* count of the row), in (0, 1]; some bucket has intensity 1 when there is a
\* bucket; no bucket is made up: as many as aggregateEvents returns.
C9_IntensityNormalised ==
    "GetHeatmapBucketData" \in done
    => /\ \A i \in DOMAIN outHeatData :
            /\ outHeatData[i].intensity.num * MaxCountOf(outHeatData)
                    = outHeatData[i].count * outHeatData[i].intensity.den
            /\ 0 < outHeatData[i].intensity.num
            /\ outHeatData[i].intensity.num <= outHeatData[i].intensity.den
       /\ outHeatData # <<>> =>
            \E i \in DOMAIN outHeatData :
                outHeatData[i].intensity.num = outHeatData[i].intensity.den
       /\ Len(outHeatData) =
            IF rowData.present
            THEN Len(aggregateEvents(xDomain, rowData.data, BucketInterval))
            ELSE 0

\* C9 witness: counts 2 and 1 give intensities 1 and 1/2
C9_Witness ==
    /\ "GetHeatmapBucketData" \in done
    /\ Len(outHeatData) = 2
    /\ outHeatData[1].count = 2 /\ outHeatData[2].count = 1
    /\ outHeatData[1].intensity = [num |-> 1, den |-> 1]
    /\ outHeatData[2].intensity = [num |-> 1, den |-> 2]


\* The supplied events whose accessor yields a valid instant, in order
ValidEvents == SelectSeq(rowData.data.items, LAMBDA e : e.date.kind = "date")

\* C11: no failure escapes: aggregateEvents returns the empty sequence for a
\* malformed domain and for events that are no array; an event whose accessor
\* yields no Date or an invalid Date is skipped and the buckets are those of
\* the other events alone; a missing row or row data gives the empty sequence.
C11_FailuresDegradeToEmpty ==
    /\ ("AggregateEvents" \in done /\ Malformed(xDomain)) => outBuckets = <<>>
    /\ ("AggregateEvents" \in done /\ ~rowData.data.isArray) => outBuckets = <<>>
    /\ ("AggregateEvents" \in done /\ rowData.data.isArray)
       => outBuckets = aggregateEvents(xDomain, Array(ValidEvents), BucketInterval)
    /\ ("GetHeatmapBucketData" \in done /\ ~rowData.present) => outHeatData = <<>>
    /\ ("GetHeatmapBucketData" \in done /\ Malformed(xDomain)) => outHeatData = <<>>

\* C11 witness: a row with an event that has no Date, one with an invalid
\* Date and one in the domain, aggregated into the one bucket of the third
C11_Witness ==
    /\ "AggregateEvents" \in done
    /\ TwoInstants(xDomain)
    /\ \E i \in DOMAIN rowData.data.items : rowData.data.items[i].date = NotADate
    /\ \E i \in DOMAIN rowData.data.items : rowData.data.items[i].date = InvalidDate
    /\ Len(outBuckets) = 1
    /\ outBuckets[1].count = 1


-----------------------------------------------------------------------------
(* Properties of tick detection (SpecTicks)                                *)

Tick1 == xTicks[1]
Tick2 == xTicks[2]
YearCount == IntervalCount("timeYear", Tick1, Tick2)

\* C12 as stated: the expected duration of a candidate is the time from tick1
\* to tick1 advanced by the candidate's own count of whole units: for decades
\* floor(yearCount / 10) decades, for millennium floor(yearCount / 1000)
\* millennia (15 years apart: 10 years for decades, not 15).
C12_ExpectedDurationByUnitCount ==
    ("DetectTickScaleFromTicks" \in done /\ Len(xTicks) >= 2)
    => \A i \in DOMAIN outTickScale.candidates :
          LET c == outTickScale.candidates[i]
          IN  /\ c.scale = "decades" =>
                    /\ c.count = YearCount \div 10
                    /\ c.expectedDuration =
                         Minus(IntervalOffset("timeYear", Tick1, 10 * c.count), Tick1)
              /\ c.scale = "millennium" =>
                    /\ c.count = YearCount \div 1000
                    /\ c.expectedDuration =
                         Minus(IntervalOffset("timeYear", Tick1, 1000 * c.count), Tick1)
              /\ c.scale = "years" =>
                    c.expectedDuration =
                         Minus(IntervalOffset("timeYear", Tick1, c.count), Tick1)
              /\ c.scale = "months" =>
                    c.expectedDuration =
                         Minus(IntervalOffset("timeMonth", Tick1, c.count), Tick1)


\* The order in which the candidates are enumerated
CandidateOrder ==
    <<"millennium", "decades", "years", "months", "weeks", "days", "hours",
      "minutes", "seconds", "milliseconds">>

OrderIndex(scale) == CHOOSE i \in DOMAIN CandidateOrder : CandidateOrder[i] = scale

\* |expected duration - observed spacing| of the i-th candidate
Difference(i) ==
    AbsDur(Minus(outTickScale.candidates[i].expectedDuration, Minus(Tick2, Tick1)))

Closest ==
    {i \in DOMAIN outTickScale.candidates :
        \A j \in DOMAIN outTickScale.candidates : Leq(Difference(i), Difference(j))}

FirstClosest == CHOOSE i \in Closest : \A j \in Closest : i <= j

NoConstraint ==
    ~cfgBucketSize.set \/ (cfgBucketSize.minWidth.isNull /\ cfgBucketSize.maxWidth.isNull)

OneYearApart == Len(xTicks) >= 2 /\ Tick2 = IntervalOffset("timeYear", Tick1, 1)

\* C13: from two or more ticks, detectTickScaleFromTicks returns the candidate
\* of least |expected duration - spacing of the first two ticks| among the
\* qualifying candidates and milliseconds, the earliest in the order
\* millennium .. milliseconds among equals; ticks exactly one calendar year
\* apart are detected as years, which maps to months, the bucket granularity
\* getTimeScale returns when no size constraint refines it.
C13_ClosestCandidateFirstOnTies ==
    /\ ("DetectTickScaleFromTicks" \in done /\ Len(xTicks) >= 2)
       => /\ outTickScale.scale = outTickScale.candidates[FirstClosest].scale
          /\ \A i \in DOMAIN outTickScale.candidates :
               \A j \in DOMAIN outTickScale.candidates :
                  i < j => OrderIndex(outTickScale.candidates[i].scale)
                              < OrderIndex(outTickScale.candidates[j].scale)
          /\ outTickScale.candidates[Len(outTickScale.candidates)].scale = "milliseconds"
    /\ ("DetectTickScaleFromTicks" \in done /\ OneYearApart)
       => /\ outTickScale.scale = "years"
          /\ BUCKET_SCALE_MAP[outTickScale.scale] = "months"
    /\ ("GetTimeScale" \in done /\ OneYearApart /\ NoConstraint)
       => outTimeScale.scale = "months"

\* C13 witness: ticks one calendar year apart (a leap year, 366 days), where
\* the years, months, weeks, days, ... candidates all tie at difference 0
C13_Witness ==
    /\ {"DetectTickScaleFromTicks", "GetTimeScale"} \subseteq done
    /\ OneYearApart
    /\ NoConstraint
    /\ Cardinality(Closest) >= 3
    /\ outTickScale.scale = "years"
    /\ outTimeScale.scale = "months"


\* The tick granularity getTimeScale works from: detected from the ticks, or
\* from the domain's duration when fewer than two ticks came back
TickScaleNow == TickScaleOf(validateDomain(xDomain), xTicks)

\* C14: with no size constraint, getTimeScale returns the granularity one
\* level finer than the tick granularity for millennium down to seconds, and
\* milliseconds for milliseconds; so the result is strictly finer than the
\* tick granularity except in the milliseconds case.
C14_OneLevelFiner ==
    /\ ("GetTimeScale" \in done /\ TwoInstants(xDomain) /\ NoConstraint)
       => IF TickScaleNow = "milliseconds"
          THEN outTimeScale.scale = "milliseconds"
          ELSE OrderIndex(outTimeScale.scale) = OrderIndex(TickScaleNow) + 1
    /\ ("DetectTickScaleFromTicks" \in done /\ Len(xTicks) >= 2)
       => TickScaleNow = outTickScale.scale

\* C14 witness: ticks two seconds apart, detected as seconds, give milliseconds
C14_Witness ==
    /\ {"DetectTickScaleFromTicks", "GetTimeScale"} \subseteq done
    /\ NoConstraint
    /\ outTickScale.scale = "seconds"
    /\ TickScaleNow = "seconds"
    /\ outTimeScale.scale = "milliseconds"


-----------------------------------------------------------------------------
(* Scenarios and exhaustion of the refiner (SpecRefine)                    *)

\* Scenario D: minWidthPx = 50 alone, 30 days on 300 pixels, started at days
ScenarioD ==
    /\ "Refine" \in done
    /\ xDomain = DomMonth /\ xRange = 300
    /\ scaleIn = "days"
    /\ cfgBucketSize = BucketSize(Px(50), NullPx)

\* w is exactly px pixels
WidthIs(w, px) == WidthGe(w, px) /\ WidthLe(w, px)

\* C15 as stated: in scenario D a days bucket is 10px and the refiner evaluates
\* weeks, then months, and returns months.
C15_ScenarioD_ReachesMonths ==
    ScenarioD
    => /\ WidthIs(WidthOf("days"), 10)
       /\ outRefined.tested = <<"weeks", "months">>
       /\ outRefined.scale = "months"

\* C15 amended: in scenario D a days bucket is 10px and a weeks bucket 70px, so
\* the refiner evaluates weeks only and returns weeks.
C15_ScenarioD_StopsAtWeeks ==
    ScenarioD
    => /\ WidthIs(WidthOf("days"), 10)
       /\ WidthIs(WidthOf("weeks"), 70)
       /\ outRefined.tested = <<"weeks">>
       /\ outRefined.scale = "weeks"

\* C15 witness: scenario D has run and left days for a coarser granularity
C15_Witness ==
    /\ ScenarioD
    /\ WidthLt(WidthOf(scaleIn), MinWidthPx)
    /\ Len(outRefined.tested) >= 1
    /\ IndexOf(outRefined.scale) > IndexOf("days")


-----------------------------------------------------------------------------
(* The calendar unit of milliseconds, bucket members (SpecAggregate)       *)

EventInstant(i) == rowData.data.items[i].date.t

\* Some bucket holds both the i-th and the j-th supplied event
InOneBucket(i, j) ==
    \E b \in DOMAIN outBuckets :
        /\ \E k \in DOMAIN outBuckets[b].events : outBuckets[b].events[k].id = i
        /\ \E k \in DOMAIN outBuckets[b].events : outBuckets[b].events[k].id = j

\* C16 as stated: at granularity milliseconds the unit has one-millisecond
\* cells: floor returns the instant, offset by one adds 1 ms, two in-domain
\* events of different instants fall in different buckets, and a bucket is
\* 1 ms wide in pixels, strictly narrower than a seconds bucket.
C16_MillisecondCells ==
    ("AggregateEvents" \in done /\ TwoInstants(xDomain) /\ Less(DomainStart, DomainEnd)
        /\ scaleIn = "milliseconds")
    => /\ \A i \in InDomainEvents :
            IntervalFloor(BucketInterval, EventInstant(i)) = EventInstant(i)
       /\ IntervalOffset(BucketInterval, DomainStart, 1) = Plus(DomainStart, <<0, 1>>)
       /\ \A i \in InDomainEvents : \A j \in InDomainEvents :
            EventInstant(i) # EventInstant(j) => ~InOneBucket(i, j)
       /\ WidthOf("milliseconds").den = WidthOf("seconds").den
       /\ Less(WidthOf("milliseconds").num, WidthOf("seconds").num)


\* The supplied events, in the order supplied, that have a valid instant in
\* [domain.start, domain.end) which floors to bucketDate
MembersOf(bucketDate) ==
    SelectSeq(rowData.data.items,
              LAMBDA e : /\ e.date.kind = "date"
                         /\ Leq(DomainStart, e.date.t)
                         /\ Less(e.date.t, DomainEnd)
                         /\ IntervalFloor(BucketInterval, e.date.t) = bucketDate)

\* C17: the members of every bucket are exactly the supplied events that are
\* valid, in the domain and floor to the bucket's start, in the order they
\* were supplied; count is the number of members and at least 1.
C17_MembersInSuppliedOrder ==
    "AggregateEvents" \in done
    => \A b \in DOMAIN outBuckets :
          /\ outBuckets[b].events = MembersOf(outBuckets[b].date)
          /\ outBuckets[b].count = Len(outBuckets[b].events)
          /\ outBuckets[b].count >= 1

\* C17 witness: a bucket of two members, the first supplied being the later
\* in time, beside an event that is left out
C17_Witness ==
    /\ "AggregateEvents" \in done
    /\ Len(rowData.data.items) = 3
    /\ \E b \in DOMAIN outBuckets :
          /\ outBuckets[b].count = 2
          /\ outBuckets[b].events[1].id < outBuckets[b].events[2].id
          /\ Less(outBuckets[b].events[2].date.t, outBuckets[b].events[1].date.t)


\* The granularity the walks start from
StartScale == TIMESCALE_HIERARCHY[StartIndex]

MinOnly == ~cfgBucketSize.minWidth.isNull /\ cfgBucketSize.maxWidth.isNull
MaxOnly == cfgBucketSize.minWidth.isNull /\ ~cfgBucketSize.maxWidth.isNull

\* The width at the start satisfies every constraint that is set
StartFits ==
    /\ cfgBucketSize.minWidth.isNull \/ WidthGe(WidthOf(StartScale), MinWidthPx)
    /\ cfgBucketSize.maxWidth.isNull \/ WidthLe(WidthOf(StartScale), MaxWidthPx)

\* C18: exhaustion is no error.  With minWidthPx alone, a start narrower than
\* minWidthPx and no coarser granularity reaching it, refineBucketScale
\* returns decades; with maxWidthPx alone, a start wider than maxWidthPx and
\* no finer granularity fitting, it returns milliseconds; a start that
\* satisfies every set constraint is returned unchanged (the start being days
\* when the granularity passed in is not in the hierarchy).
C18_ExhaustionGivesExtreme ==
    "Refine" \in done
    => /\ (MinOnly /\ WideEnough = {}) => outRefined.scale = "decades"
       /\ (MaxOnly /\ NarrowEnough = {}) => outRefined.scale = "milliseconds"
       /\ StartFits => (outRefined.scale = StartScale /\ outRefined.tested = <<>>)
       /\ outRefined.scale \in Granularities

\* C18 witness: minWidthPx alone, and every granularity from days to decades
\* measured and found too narrow
C18_Witness ==
    /\ "Refine" \in done
    /\ MinOnly
    /\ scaleIn = "days"
    /\ WideEnough = {}
    /\ outRefined.tested = <<"weeks", "months", "years", "decades">>
    /\ outRefined.scale = "decades"
    /\ WidthLt(WidthOf("decades"), MinWidthPx)


-----------------------------------------------------------------------------
(* The milliseconds fallback (SpecTicks)                                   *)

\* The calendar-unit candidates whose expected duration is the observed spacing
ExactMatches ==
    {i \in DOMAIN outTickScale.candidates :
        /\ outTickScale.candidates[i].scale # "milliseconds"
        /\ Difference(i) = ZeroDur}

\* What detectTickScaleFromTicks itself returns: a unit other than
\* milliseconds only on an exact match, then the first (coarsest) such, and
\* milliseconds when no unit matches exactly
FallbackWins ==
    /\ outTickScale.scale # "milliseconds"
       => \E i \in ExactMatches :
             /\ outTickScale.candidates[i].scale = outTickScale.scale
             /\ \A j \in ExactMatches : i <= j
    /\ ExactMatches = {} => outTickScale.scale = "milliseconds"

Detected == "DetectTickScaleFromTicks" \in done /\ Len(xTicks) >= 2

\* C19 as stated: detectTickScaleFromTicks returns a calendar unit only on an
\* exact match; when no unit matches the spacing exactly it returns
\* milliseconds, so the bucket granularity is milliseconds and the heatmap is
\* not used.
C19_NoExactMatchNeverHeatmap ==
    /\ Detected => FallbackWins
    /\ (Detected /\ ExactMatches = {} /\ "GetTimeScale" \in done)
       => outTimeScale.scale = "milliseconds"
    /\ (Detected /\ ExactMatches = {} /\ "DropLine" \in done)
       => (~outUseHeatmap /\ outComponent = "drop")

\* C19 amended: the same, the bucket granularity being milliseconds and the
\* heatmap unused when no size constraint is set; under a minWidth
\* constraint the refiner may coarsen milliseconds to a heatmap granularity.
C19_NoExactMatchNoConstraintNoHeatmap ==
    /\ Detected => FallbackWins
    /\ (Detected /\ ExactMatches = {} /\ NoConstraint /\ "GetTimeScale" \in done)
       => outTimeScale.scale = "milliseconds"
    /\ (Detected /\ ExactMatches = {} /\ NoConstraint /\ "DropLine" \in done)
       => (~outUseHeatmap /\ outComponent = "drop")

\* C19 witness: ticks more than a year apart that no unit matches exactly
C19_Witness ==
    /\ {"DetectTickScaleFromTicks", "GetTimeScale", "DropLine"} \subseteq done
    /\ Len(xTicks) >= 2
    /\ NoConstraint
    /\ Leq(<<365, 0>>, Minus(Tick2, Tick1))
    /\ ExactMatches = {}
    /\ Len(outTickScale.candidates) >= 2
    /\ outTickScale.scale = "milliseconds"
    /\ outTimeScale.scale = "milliseconds"
    /\ outComponent = "drop"


-----------------------------------------------------------------------------
(* Properties of the render passes (SpecRender)                            *)

\* C20: after any sequence of passes, with the heatmap decision flipping
\* between them, every row holds only elements of the latest pass's mode: no
\* .drop after a heatmap pass, no .heatmap-rect after a drops pass, in rows the
\* pass created and in rows that were there before; with metaballs enabled a
\* row has the metaballs filter iff the latest pass was not a heatmap pass.
C20_OnlyLatestModeInRows ==
    "DropLine" \in done
    => /\ Len(dom) = Len(selData)
       /\ \A i \in DOMAIN dom :
            /\ outUseHeatmap => dom[i].drop = 0
            /\ ~outUseHeatmap => dom[i].rect = 0
            /\ cfgMetaballs => (dom[i].filter <=> ~outUseHeatmap)

\* C20 witness: a heatmap pass with metaballs enabled over a row that held
\* drops before the pass and now holds rects, and a row the pass created
C20_Witness ==
    /\ "DropLine" \in done
    /\ outUseHeatmap
    /\ cfgMetaballs
    /\ \E i \in DOMAIN dom :
          /\ dom[i].before = "drop"
          /\ dom[i].rect > 0 /\ dom[i].drop = 0 /\ ~dom[i].filter
    /\ \E i \in DOMAIN dom : dom[i].before = "new"

=============================================================================
